---- MODULE Spec2Model ----
(***************************************************************************)
(* msu1-reverser (src/src/main.rs): reads an MSU-1 PCM file, writes the    *)
(* time-reversed file, with a dithered fade-in when the input loops.       *)
(*                                                                         *)
(* Files and buffers are sequences of bytes (0..255).  One run of main is  *)
(* a sequence of steps; pc is the position of the run in main and in the   *)
(* two write_reversed* functions.  The file system is assumed to work      *)
(* (File::open, File::create, read and write_all succeed), so the only     *)
(* panics modelled are the ones the program's own checks and arithmetic    *)
(* raise.  out is the sequence of bytes handed to the BufWriter, which     *)
(* reaches the file when the writer is dropped.                            *)
(***************************************************************************)
EXTENDS Integers, Sequences, FiniteSets, TLC

\* ---------------------------------------------------------------- bounds
MaxFrames == 4      \* frames in the input payload
MaxFade == 3        \* fade_samples of the runs explored
MaxWrapped == 2     \* fade iterations followed after fade_rem has wrapped

\* ------------------------------------------------------- program constants
QuartersPerFrame == 4             \* fade_time is counted in quarters of 1/44100 s
FadeTimeLimitQ == 105840000       \* 600.0 s, in quarter frames (600 * 44100 * 4)
MaxFadeSamples == 26460000        \* fade_samples of 600.0 s
I32Max == 2147483647
I32Min == -2147483647 - 1
DitherLow == -32768
DitherHigh == 32768

Magic == <<77, 83, 85, 49>>       \* b"MSU1"

\* ------------------------------------------------------------ conversions
RECURSIVE LeBytes(_, _)
\* n.to_le_bytes() for an unsigned integer of w bytes
LeBytes(n, w) == IF w = 0 THEN <<>> ELSE <<n % 256>> \o LeBytes(n \div 256, w - 1)

\* u32::from_le_bytes
U32FromLe(b) == b[1] + 256 * b[2] + 65536 * b[3] + 16777216 * b[4]

\* i16::from_le_bytes
I16FromLe(lo, hi) == LET u == lo + 256 * hi IN IF u >= 32768 THEN u - 65536 ELSE u

\* `as i16` of an i32: keeps the low 16 bits
AsI16(x) == LET u == x % 65536 IN IF u >= 32768 THEN u - 65536 ELSE u

\* i16::to_le_bytes
I16ToLe(v) == LET u == v % 65536 IN <<u % 256, u \div 256>>

\* `>> 16` of an i32: arithmetic shift, rounds towards minus infinity
Shr16(x) == x \div 65536

\* i32 addition: does a + b leave the type, and what a wrapping build keeps
AddOverflowsI32(a, b) == \/ b > 0 /\ a > I32Max - b
                         \/ b < 0 /\ a < I32Min - b

WrappingAddI32(a, b) ==
    IF b > 0 /\ a > I32Max - b THEN (a - I32Max - 1) + (b - I32Max - 1)
    ELSE IF b < 0 /\ a < I32Min - b THEN (a - I32Min) + (b - I32Min)
    ELSE a + b

\* ------------------------------------------------------- frames of a buffer
NumChunks(buf) == (Len(buf) + 3) \div 4

\* buf.chunks(4)
Chunks(buf) ==
    [i \in 1..NumChunks(buf) |->
        SubSeq(buf, 4 * i - 3, IF 4 * i <= Len(buf) THEN 4 * i ELSE Len(buf))]

\* mutant: the chunks taken first to last
ChunksInOrder(buf) == Chunks(buf)

\* buf.chunks(4).rev()
RevChunks(buf) ==
    [i \in 1..NumChunks(buf) |-> Chunks(buf)[NumChunks(buf) + 1 - i]]

\* the item the iterator buf.chunks(4).rev().cycle() yields after it has
\* yielded iter items (buf not empty)
CycleNext(buf, iter) == RevChunks(buf)[(iter % NumChunks(buf)) + 1]

RECURSIVE Flatten(_)
Flatten(chunks) ==
    IF chunks = <<>> THEN <<>> ELSE Head(chunks) \o Flatten(Tail(chunks))

\* --------------------------------------------------------------- the fade
\* floor(exp(-6 * r / t) * 65536) in f32, for t = 1..6 and r = 1..t
GainTable ==
    << <<162>>,
       <<3262, 162>>,
       <<8869, 1200, 162>>,
       <<14623, 3262, 728, 162>>,
       <<19739, 5945, 1790, 539, 162>>,
       <<24109, 8869, 3262, 1200, 441, 162>> >>

\* mutant: the gain taken after the decrement of fade_rem, unity on the last
\* faded frame
FadeMagnitudeLate(rem, samples) ==
    CASE samples = 0 -> 0
      [] rem = 1 -> 65536
      [] samples = MaxFadeSamples /\ rem = MaxFadeSamples -> 162
      [] OTHER -> GainTable[samples][rem - 1]

\* fade_magnitude of line 56.  fade_rem < 0 stands for a fade_rem that has
\* wrapped (fade_rem + 2^w); that only happens with fade_samples = 0, where
\* the quotient is NaN (0/0) or -inf (-x/0): `as i32` gives 0 for NaN and
\* exp(-inf) is 0.
FadeMagnitude(rem, samples) ==
    CASE samples = 0 -> 0
      [] samples = MaxFadeSamples /\ rem = 1 -> 65535
      [] samples = MaxFadeSamples /\ rem = MaxFadeSamples -> 162
      [] OTHER -> GainTable[samples][rem]

\* line 54
DecodeLeft(chunk) == I16FromLe(chunk[1], chunk[2])

\* mutant: the right sample decoded from the right sample's bytes
DecodeRightOwn(chunk) == I16FromLe(chunk[3], chunk[4])

\* line 55
DecodeRight(chunk) == I16FromLe(chunk[1], chunk[2])

\* sample as i32 * fade_magnitude + dither, as a wrapping build computes it.
\* The product is within i32: |sample| <= 32768 and 0 <= gain <= 65536.
ScaleSum(sample, gain, dither) == WrappingAddI32(sample * gain, dither)

ScaleOverflows(sample, gain, dither) == AddOverflowsI32(sample * gain, dither)

\* one channel of lines 57-58
FadeSample(sample, gain, dither) == AsI16(Shr16(ScaleSum(sample, gain, dither)))

\* faded_chunk of lines 54-61
FadedChunk(chunk, gain, dl, dr) ==
    I16ToLe(FadeSample(DecodeLeft(chunk), gain, dl))
        \o I16ToLe(FadeSample(DecodeRight(chunk), gain, dr))

\* fade_samples of line 88, for a fade_time of q quarter frames that is not
\* an odd multiple of half a frame
FadeSamples(q) == (q + 2) \div QuartersPerFrame

\* mutant: the byte length taken for the frame count
RemChunksBytes(buf) == Len(buf)

\* rem_chunks of line 68
RemChunksInit(buf) == Len(buf) \div 4

\* ------------------------------------------------------------------ inputs
\* 16-bit stereo frames: (32767, -32768) and (-32768, 1)
FrameSet == { <<255, 127, 0, 128>>, <<0, 128, 1, 0>> }

Payloads == UNION { [1..n -> FrameSet] : n \in 0..MaxFrames }

\* bytes after the last whole frame: none, or one stray byte
Tails == { <<>>, <<7>> }

\* input files: too short for a header, a wrong magic, and every header field
\* 0..MaxFrames+1 in front of every payload, whole or with a stray byte
InFiles ==
    { <<>>, Magic }
        \cup { <<77, 83, 85, 50>> \o LeBytes(0, 4) \o f : f \in FrameSet }
        \cup { Magic \o LeBytes(l, 4) \o Flatten(p) \o t :
                 l \in 0..(MaxFrames + 1), p \in Payloads, t \in Tails }

\* --fade-time: an f32, as its class and (when finite) its value in quarter
\* frames; negative, zero, off the frame grid, on it, and past 600 s
FadeTimes ==
    { [class |-> c, q |-> 0] : c \in {"nan", "inf", "neginf"} }
        \cup { [class |-> "finite", q |-> q] :
                 q \in {-1, 3, FadeTimeLimitQ + 1} \cup { QuartersPerFrame * k : k \in 0..MaxFade } }

\* the dither draws followed, as (left, right): the ends of
\* Uniform::new_inclusive(-32768, 32768), each on each channel
DitherDraws == { <<DitherLow, DitherHigh>>, <<DitherHigh, DitherLow>> }

\* ------------------------------------------------------------------- state
VARIABLES
    fade_time,        \* invocation.fade_time
    infile,           \* bytes of the input file
    usize_bytes,      \* size of usize on the target: 4 or 8
    overflow_checks,  \* TRUE: arithmetic overflow panics; FALSE: it wraps
    pc,               \* position of the run
    err,              \* panic message, "" while running
    fade_samples, loop_point, all, created, out,
    buf, iter, fade_rem, rem_chunks,
    fade_log          \* history: what each fade iteration read and drew

inputs == <<fade_time, infile, usize_bytes, overflow_checks>>
fadein == <<buf, iter, fade_rem, rem_chunks>>
history == <<fade_log>>
vars == <<fade_time, infile, usize_bytes, overflow_checks, pc, err,
          fade_samples, loop_point, all, created, out,
          buf, iter, fade_rem, rem_chunks, fade_log>>

\* loop_point = 0 is None: read_header never returns Some(0)
Init ==
    /\ fade_time \in FadeTimes
    /\ infile \in InFiles
    /\ usize_bytes \in {4, 8}
    /\ overflow_checks \in BOOLEAN
    /\ pc = "validate"
    /\ err = ""
    /\ fade_samples = 0
    /\ loop_point = 0
    /\ all = <<>>
    /\ created = FALSE
    /\ out = <<>>
    /\ buf = <<>>
    /\ iter = 0
    /\ fade_rem = 0
    /\ rem_chunks = 0
    /\ fade_log = <<>>

Panic(msg) == pc' = "panicked" /\ err' = msg

\* ------------------------------------------------------------------- main
\* lines 82-88
FadeTimeInvalid == fade_time.class # "finite" \/ fade_time.q < 0

FadeTimeTooLong == fade_time.q > FadeTimeLimitQ

ValidateFadeTime ==
    /\ pc = "validate"
    /\ IF FadeTimeInvalid
         THEN Panic("Invalid fade time. Must be positive.") /\ UNCHANGED fade_samples
       ELSE IF FadeTimeTooLong
         THEN Panic("Ridiculously long fade time.") /\ UNCHANGED fade_samples
       ELSE /\ fade_samples' = FadeSamples(fade_time.q)
            /\ pc' = "read_header"
            /\ UNCHANGED err
    /\ UNCHANGED <<inputs, loop_point, all, created, out, fadein, history>>

\* lines 89-90 and read_header, lines 29-39
ReadHeader ==
    /\ pc = "read_header"
    /\ IF Len(infile) < 8
         THEN Panic("Unable to read input file header") /\ UNCHANGED loop_point
       ELSE IF SubSeq(infile, 1, 4) # Magic
         THEN Panic("Input file is not an MSU-1 PCM file") /\ UNCHANGED loop_point
       ELSE /\ loop_point' = U32FromLe(SubSeq(infile, 5, 8))
            /\ pc' = "read_all"
            /\ UNCHANGED err
    /\ UNCHANGED <<inputs, fade_samples, all, created, out, fadein, history>>

\* mutant: the length check dropped
LenOkAlways(data) == TRUE

\* the check of line 93
LenOk(data) == Len(data) % 4 = 0

\* lines 91-95
ReadAll ==
    /\ pc = "read_all"
    /\ all' = SubSeq(infile, 9, Len(infile))
    /\ IF ~LenOk(all')
         THEN Panic("Input file has been corrupted, or has had extra data added!")
         ELSE pc' = "create" /\ UNCHANGED err
    /\ UNCHANGED <<inputs, fade_samples, loop_point, created, out, fadein, history>>

\* lines 96-97
CreateOutput ==
    /\ pc = "create"
    /\ created' = TRUE
    /\ out' = Magic
    /\ pc' = "header"
    /\ UNCHANGED <<inputs, err, fade_samples, loop_point, all, fadein, history>>

\* the header field of lines 101 and 105
HeaderField == IF loop_point = 0 THEN <<0, 0, 0, 0>> ELSE LeBytes(fade_samples, usize_bytes)

\* lines 98-105
WriteHeader ==
    /\ pc = "header"
    /\ out' = out \o HeaderField
    /\ pc' = IF loop_point = 0 THEN "reversed" ELSE "slice"
    /\ UNCHANGED <<inputs, err, fade_samples, loop_point, all, created, fadein, history>>

\* write_reversed, lines 41-45: one chunk per step, iter chunks written so far
WriteReversed ==
    /\ pc = "reversed"
    /\ IF iter < NumChunks(all)
         THEN /\ out' = out \o RevChunks(all)[iter + 1]
              /\ iter' = iter + 1
              /\ UNCHANGED pc
         ELSE /\ pc' = "done"
              /\ UNCHANGED <<out, iter>>
    /\ UNCHANGED <<inputs, err, fade_samples, loop_point, all, created,
                   buf, fade_rem, rem_chunks, history>>

\* lines 106-108 and 48-52
EnterFadein ==
    /\ pc = "slice"
    /\ IF loop_point * 4 > Len(all)
         THEN /\ Panic("range start index out of range for slice")
              /\ UNCHANGED <<buf, fade_rem>>
         ELSE /\ buf' = SubSeq(all, loop_point * 4 + 1, Len(all))
              /\ fade_rem' = fade_samples
              /\ pc' = "fade"
              /\ UNCHANGED err
    /\ UNCHANGED <<inputs, fade_samples, loop_point, all, created, out,
                   iter, rem_chunks, history>>

\* ------------------------------------------- write_reversed_with_fadein
\* one iteration of the loop of lines 53-67
FadeStep ==
    /\ pc = "fade"
    /\ buf # <<>>
    /\ fade_rem < 0 => Len(fade_log) <= MaxWrapped
    /\ \E d \in DitherDraws :
         LET dl == d[1]
             dr == d[2]
             chunk == CycleNext(buf, iter)
             gain == FadeMagnitude(fade_rem, fade_samples)
             overflow == \/ ScaleOverflows(DecodeLeft(chunk), gain, dl)
                         \/ ScaleOverflows(DecodeRight(chunk), gain, dr)
         IN /\ fade_log' = Append(fade_log,
                                     [chunk |-> chunk, rem |-> fade_rem, gain |-> gain,
                                      dl |-> dl, dr |-> dr, overflow |-> overflow])
            /\ iter' = iter + 1
            /\ IF overflow /\ overflow_checks
                 THEN /\ Panic("attempt to add with overflow")
                      /\ UNCHANGED <<out, fade_rem, rem_chunks>>
               ELSE /\ out' = out \o FadedChunk(chunk, gain, dl, dr)
                    /\ IF fade_rem = 0 /\ overflow_checks
                         THEN /\ Panic("attempt to subtract with overflow")
                              /\ UNCHANGED <<fade_rem, rem_chunks>>
                         ELSE /\ fade_rem' = fade_rem - 1
                              /\ IF fade_rem' = 0
                                   THEN pc' = "pass" /\ rem_chunks' = RemChunksInit(buf)
                                   ELSE UNCHANGED <<pc, rem_chunks>>
                              /\ UNCHANGED err
    /\ UNCHANGED <<inputs, fade_samples, loop_point, all, created, buf>>

\* the loop of lines 53-67 over an empty buffer: cycle() yields nothing
FadeEmpty ==
    /\ pc = "fade"
    /\ buf = <<>>
    /\ rem_chunks' = RemChunksInit(buf)
    /\ pc' = "pass"
    /\ UNCHANGED <<inputs, err, fade_samples, loop_point, all, created, out,
                   buf, iter, fade_rem, history>>

\* mutant: the second loop over a fresh iterator
PassChunkRestart(b, it, rem) == RevChunks(b)[(Len(b) \div 4) - rem + 1]

\* the chunk `for chunk in iter` of line 69 takes: the iterator of the fade
\* loop, carried on
PassChunk(b, it, rem) == CycleNext(b, it)

\* one iteration of the loop of lines 69-75
PassStep ==
    /\ pc = "pass"
    /\ buf # <<>>
    /\ out' = out \o PassChunk(buf, iter, rem_chunks)
    /\ iter' = iter + 1
    /\ IF rem_chunks = 0 /\ overflow_checks
         THEN Panic("attempt to subtract with overflow") /\ UNCHANGED rem_chunks
         ELSE /\ rem_chunks' = rem_chunks - 1
              /\ pc' = IF rem_chunks' = 0 THEN "done" ELSE "pass"
              /\ UNCHANGED err
    /\ UNCHANGED <<inputs, fade_samples, loop_point, all, created, buf, fade_rem, history>>

\* the loop of lines 69-75 over an empty buffer, and the return to main
PassEmpty ==
    /\ pc = "pass"
    /\ buf = <<>>
    /\ pc' = "done"
    /\ UNCHANGED <<inputs, err, fade_samples, loop_point, all, created, out,
                   fadein, history>>

Next ==
    \/ ValidateFadeTime
    \/ ReadHeader
    \/ ReadAll
    \/ CreateOutput
    \/ WriteHeader
    \/ WriteReversed
    \/ EnterFadein
    \/ FadeStep
    \/ FadeEmpty
    \/ PassStep
    \/ PassEmpty

Spec == Init /\ [][Next]_vars

\* ------------------------------------------- the fade iteration on its own
\* The arithmetic of one fade iteration at the ends of its ranges, which the
\* runs of Spec are too short to reach: the loop is entered at the states it
\* passes through (first and last iteration of fades of 1..MaxFade frames and
\* of the longest fade, 600 s), over a one-frame loop whose left sample takes
\* the edge values.  out and fade_log hold what is written from there on.
EdgeBytes == {0, 1, 127, 128, 255}

FadeChunks == { <<lo, hi, 0, 128>> : lo \in EdgeBytes, hi \in EdgeBytes }

\* <<fade_rem, fade_samples>>
FadePoints ==
    { <<0, 0>>, <<1, MaxFadeSamples>>, <<MaxFadeSamples, MaxFadeSamples>> }
        \cup { p \in (1..MaxFade) \X (1..MaxFade) : p[1] <= p[2] }

InitFade ==
    \E c \in FadeChunks, p \in FadePoints :
        /\ fade_time = [class |-> "finite", q |-> QuartersPerFrame * p[2]]
        /\ infile = Magic \o LeBytes(1, 4) \o <<0, 0, 0, 0>> \o c
        /\ usize_bytes \in {4, 8}
        /\ overflow_checks \in BOOLEAN
        /\ pc = "fade"
        /\ err = ""
        /\ fade_samples = p[2]
        /\ loop_point = 1
        /\ all = <<0, 0, 0, 0>> \o c
        /\ created = TRUE
        /\ out = Magic \o LeBytes(p[2], usize_bytes)
        /\ buf = c
        /\ iter = p[2] - p[1]
        /\ fade_rem = p[1]
        /\ rem_chunks = 0
        /\ fade_log = <<>>

NextFade == fade_log = <<>> /\ FadeStep

SpecFade == InitFade /\ [][NextFade]_vars

\* ------------------------------------------------------------ observations
Looped == loop_point # 0

\* bytes of out in front of the first frame
HeaderLen == IF Looped THEN 4 + usize_bytes ELSE 8

PayloadLen == Len(out) - HeaderLen

\* frame k (from 0) of the output payload, of the input payload, of buf
OutFrame(k) == SubSeq(out, HeaderLen + 4 * k + 1, HeaderLen + 4 * k + 4)

InFrame(k) == SubSeq(all, 4 * k + 1, 4 * k + 4)

BufFrame(k) == SubSeq(buf, 4 * k + 1, 4 * k + 4)

FadeTimeValid == fade_time.class = "finite" /\ fade_time.q >= 0 /\ fade_time.q <= FadeTimeLimitQ

HasHeader == Len(infile) >= 8

MagicOk == HasHeader /\ SubSeq(infile, 1, 4) = Magic

InPayloadLen == Len(infile) - 8

InLoopPoint == U32FromLe(SubSeq(infile, 5, 8))

Malformed == HasHeader /\ (~MagicOk \/ InPayloadLen % 4 # 0)

\* everything main validates, and a loop point within the payload
ValidInput ==
    /\ FadeTimeValid
    /\ MagicOk
    /\ InPayloadLen % 4 = 0
    /\ InLoopPoint * 4 <= InPayloadLen

\* pass-through frames written so far
NumPassed == (PayloadLen \div 4) - Len(fade_log)

\* ------------------------------------------------------------------ claims

C2_HeaderLayout ==
    (ValidInput /\ created /\ pc \in {"reversed", "slice", "fade", "pass", "done"}) =>
        /\ SubSeq(out, 1, 4) = Magic
        /\ U32FromLe(SubSeq(out, 5, 8)) = (IF Looped THEN fade_samples ELSE 0)
        /\ Len(out) = 8 + 4 * iter

\* C3: without a loop point no frame is faded and output frame i is input
\* frame N-1-i, so that reversing the frames of the output payload once more
\* gives the input payload back.
C3_ReversedExactly ==
    (~Looped /\ pc \in {"reversed", "done"}) =>
        /\ SubSeq(out, 1, 8) = Magic \o <<0, 0, 0, 0>>
        /\ fade_log = <<>>
        /\ PayloadLen = 4 * iter
        /\ \A i \in 0..(iter - 1) : OutFrame(i) = InFrame((Len(all) \div 4) - 1 - i)
        /\ pc = "done" =>
              /\ PayloadLen = Len(all)
              /\ Flatten(RevChunks(SubSeq(out, 9, Len(out)))) = all

C3_Witness ==
    /\ ~Looped /\ pc = "done"
    /\ fade_samples >= 1
    /\ Len(all) = 12
    /\ OutFrame(0) = InFrame(2)
    /\ OutFrame(0) # OutFrame(2)
    /\ OutFrame(1) # OutFrame(2)

\* C4: with a wrong magic or a payload that is not whole frames, the output
\* file is never created and nothing is written; the run is still reading
\* its input, with a step to take, or has panicked.
C4_MalformedRejected ==
    Malformed =>
        /\ ~created
        /\ out = <<>>
        /\ pc \in {"validate", "read_header", "read_all", "panicked"}
        /\ pc # "panicked" => ENABLED Next

C4_Witness ==
    /\ Malformed /\ FadeTimeValid
    /\ MagicOk
    /\ pc = "panicked"
    /\ err = "Input file has been corrupted, or has had extra data added!"
    /\ ~created

\* C5 as stated (its safety half): on valid input no counter is decremented
\* below zero: fade_rem and rem_chunks never wrap and the run never panics on
\* a subtraction.
C5_NoUnderflow ==
    ValidInput =>
        /\ fade_rem >= 0
        /\ rem_chunks >= 0
        /\ err # "attempt to subtract with overflow"

\* C6 as stated: over a non-empty loop the k-th faded frame is computed with
\* fade_rem = fade_samples - k, never with fade_rem = 0, and the pass-through
\* phase begins after exactly fade_samples faded frames.
C6_FadeCount ==
    (ValidInput /\ Looped /\ buf # <<>>) =>
        /\ \A k \in 1..Len(fade_log) :
              /\ fade_log[k].rem = fade_samples - (k - 1)
              /\ fade_log[k].rem >= 1
        /\ pc \in {"pass", "done"} => Len(fade_log) = fade_samples

\* the frames that differ from chunk in bytes 2..4 at most
TwinChunks(chunk) == { <<chunk[1], chunk[2], b3, b4>> : b3 \in {0, 255}, b4 \in {0, 127} }

\* C7: every faded frame is a function of bytes 0..2 of the frame it was
\* made from: the run that reads any other bytes 2..4 there and draws the
\* same dither writes the same frame.
C7_RightFromLeftBytes ==
    \A k \in 1..Len(fade_log) :
        (4 * k <= PayloadLen) =>
            \A twin \in TwinChunks(fade_log[k].chunk) \cup {fade_log[k].chunk} :
                OutFrame(k - 1) =
                    FadedChunk(twin, fade_log[k].gain, fade_log[k].dl, fade_log[k].dr)

C7_Witness ==
    /\ Len(fade_log) >= 2
    /\ PayloadLen >= 8
    /\ fade_log[2].chunk = <<255, 127, 0, 128>>
    /\ fade_log[2].gain > 162
    /\ OutFrame(1)[1] # 0

\* C8: the j-th pass-through frame is buffer frame N-1-((fade_samples+j) mod N)
\* unchanged: the cyclic reversed sequence carried on from where the fade
\* loop stopped.
C8_PassContinuesCycle ==
    (Looped /\ buf # <<>> /\ pc \in {"pass", "done"}) =>
        \A j \in 0..(NumPassed - 1) :
            OutFrame(fade_samples + j) =
                BufFrame((Len(buf) \div 4) - 1 - ((fade_samples + j) % (Len(buf) \div 4)))

C8_Witness ==
    /\ Looped /\ pc = "done"
    /\ Len(buf) = 12
    /\ fade_samples = 2
    /\ NumPassed = 3
    /\ OutFrame(2) = BufFrame(0)
    /\ OutFrame(3) = BufFrame(2)
    /\ BufFrame(0) # BufFrame(2)
    /\ BufFrame(1) # BufFrame(2)

\* one channel: the sum stays within i32, its shift within i16, and the two
\* bytes written hold the shifted value
ChannelExact(sample, gain, dither, lo, hi) ==
    /\ ~AddOverflowsI32(sample * gain, dither)
    /\ (sample * gain + dither) \div 65536 >= -32768
    /\ (sample * gain + dither) \div 65536 <= 32767
    /\ I16FromLe(lo, hi) = (sample * gain + dither) \div 65536

\* C9: in every fade iteration with fade_rem >= 1 or fade_samples = 0 the
\* gain is within 0..65535, sample * gain + dither stays within i32, its
\* shift by 16 stays within i16, and the sample written is that value.
C9_FadeArithmeticExact ==
    \A k \in 1..Len(fade_log) :
        LET o == fade_log[k]
            left == I16FromLe(o.chunk[1], o.chunk[2])
        IN /\ o.gain >= 0
           /\ o.gain <= 65535
           /\ ~o.overflow
           /\ 4 * k <= PayloadLen
           /\ ChannelExact(left, o.gain, o.dl, OutFrame(k - 1)[1], OutFrame(k - 1)[2])
           /\ ChannelExact(left, o.gain, o.dr, OutFrame(k - 1)[3], OutFrame(k - 1)[4])

C9_Witness ==
    /\ Len(fade_log) = 1
    /\ fade_log[1].gain = 65535
    /\ fade_log[1].chunk = <<0, 128, 0, 128>>
    /\ fade_log[1].dl = DitherLow
    /\ OutFrame(0) = <<0, 128, 1, 128>>

\* C10 as stated: a loop point past the end of the payload is rejected before
\* the output file is created or any byte of it is written.
C10_LoopPointRejected ==
    (FadeTimeValid /\ MagicOk /\ InPayloadLen % 4 = 0 /\ InLoopPoint * 4 > InPayloadLen) =>
        /\ ~created
        /\ out = <<>>
        /\ pc # "done"

====
